---- MODULE Spec2Model ----
(***************************************************************************)
(* whamm-fuel: control-flow taint slicing and fuel-probe synthesis.        *)
(*                                                                         *)
(* One function of the input module is read opcode by opcode (a valid      *)
(* body over a small opcode alphabet), then the pipeline of run.rs runs on *)
(* it: analyze, slice_program, save_structure, codegen, write.             *)
(***************************************************************************)
EXTENDS Integers, Sequences, FiniteSets, TLC

VARIABLES
    stage,      \* position of the driver (do_analysis)
    body,       \* lf.body.instructions of the function
    ctrl,       \* the validator's control frames while the body is read
    ip,         \* instr_idx of the module iterator in analyze
    stack,      \* FuncTaint.stack
    instrs,     \* FuncTaint.instrs / FuncState.instrs
    slices,     \* SliceResult.slices : start_instr_idx -> Slice
    genI,       \* gen_from_slices' cursor i
    probes,     \* the generated functions of the first run, by start index
    probes2,    \* the generated functions of a second run on the same input
    minProbes,  \* the minimal probes written (run.rs writes none)
    runOut,     \* the last probe execution: [start, env, fuel, path, trace]
    total_results   \* FuncTaint.total_results: results of the function's type

vars == <<stage, body, ctrl, ip, stack, instrs, slices, genI,
          probes, probes2, minProbes, runOut, total_results>>

----------------------------------------------------------------------------
(* Bounds of the model *)

\* longest function body of the control-flow specification
MaxLen == 7
\* longest function body of the external-state specification
MaxLenState == 5
\* longest function body of the Return specification
MaxLenRet == 8
\* longest function body of the block-structure specification
MaxLenStruct == 8
\* longest function body of the arithmetic specification
MaxLenArith == 6
\* longest function body of the specification of functions with a result
MaxLenRes == 5

\* the modelled function has one i32 parameter (and one more local, local 1);
\* its result count is the variable total_results
total_params == 1

----------------------------------------------------------------------------
(* Opcodes.  0-based instruction indices as in the source; the sequence    *)
(* position of instruction i is i + 1.                                     *)

Op(o, a) == [op |-> o, a |-> a]

\* results of the callee of `call a` / of the type of `call_indirect a`
\* (type 0: [] -> [i32], type 1: [] -> [i32 i32]); no callee takes parameters
TypeParams(a) == 0
TypeResults(a) == IF a = 1 THEN 2 ELSE 1

OpsCF ==
    { Op("LocalGet", 0), Op("I32Eqz", 0), Op("Nop", 0), Op("Drop", 0),
      Op("Block", 0), Op("Loop", 0), Op("If", 0), Op("Else", 0), Op("End", 0),
      Op("Br", 0), Op("BrIf", 0), Op("BrIf", 1) }

OpsState ==
    { Op("GlobalGet", 0), Op("GlobalGet", 1),
      Op("I32Load", 0), Op("Call", 0), Op("Call", 1), Op("CallIndirect", 0),
      Op("I32Const", 0), Op("BrIf", 0), Op("If", 0), Op("End", 0) }

OpsRet ==
    { Op("LocalGet", 0), Op("If", 0), Op("Else", 0), Op("End", 0),
      Op("Return", 0), Op("BrIf", 0), Op("Loop", 0) }

OpsArith ==
    { Op("I32Const", 0), Op("I32Const", 1), Op("LocalGet", 0), Op("LocalGet", 1),
      Op("LocalSet", 1), Op("I32Eqz", 0), Op("I32And", 0), Op("Select", 0),
      Op("Drop", 0), Op("BrIf", 0), Op("End", 0) }

OpsRes ==
    { Op("I32Const", 0), Op("LocalGet", 0), Op("Drop", 0), Op("Block", 0),
      Op("BrIf", 0), Op("Return", 0), Op("End", 0) }

OpsStruct ==
    { Op("LocalGet", 0), Op("Block", 0), Op("If", 0), Op("Br", 0), Op("End", 0) }

OpAt(i) == body[i + 1]
IsOp(i, o) == i >= 0 /\ i < Len(body) /\ body[i + 1].op = o

IsBlockOp(o) == o.op \in {"If", "Block", "Loop"}

----------------------------------------------------------------------------
(* Reading the input module (Module::parse): one opcode at a time, kept    *)
(* valid.  A control frame holds the kind of the block, the number of      *)
(* operands pushed inside it and whether the rest of it is unreachable.    *)

Frame(k, h, u) == [kind |-> k, h |-> h, unr |-> u]

Top(s) == s[Len(s)]
SetTop(s, f) == [s EXCEPT ![Len(s)] = f]
Pop1(s) == SubSeq(s, 1, Len(s) - 1)

\* the validator can pop n operands inside frame f
CanPop(f, n) == f.unr \/ f.h >= n
AfterPop(f, n) == [f EXCEPT !.h = IF f.h >= n THEN f.h - n ELSE 0]
AfterPush(f, n) == [f EXCEPT !.h = f.h + n]

\* (pops, pushes) of a plain opcode as the validator sees it
ValPops(o) ==
    CASE o.op \in {"I32Eqz", "Drop", "I32Load", "BrIf", "LocalSet"} -> 1
      [] o.op = "I32And" -> 2
      [] o.op = "Select" -> 3
      [] o.op = "CallIndirect" -> TypeParams(o.a) + 1
      [] o.op = "Call" -> TypeParams(o.a)
      [] OTHER -> 0
ValPushes(o) ==
    CASE o.op \in {"LocalGet", "GlobalGet", "I32Const", "I32Eqz", "I32Load",
                   "I32And", "Select"} -> 1
      [] o.op \in {"Call", "CallIndirect"} -> TypeResults(o.a)
      [] OTHER -> 0

\* the operands a branch to label a carries: the function's results for the
\* outermost label, none for a block (all blocks have the empty type)
LabelArity(c, a) == IF a = Len(c) - 1 THEN total_results ELSE 0

\* the control frames after a valid opcode o, or <<>> once the function's End is read
ValidNext(c, o) ==
    LET f == Top(c) IN
    CASE o.op \in {"Block", "Loop"} -> Append(c, Frame(o.op, 0, FALSE))
      [] o.op = "If" -> Append(SetTop(c, AfterPop(f, 1)), Frame("If", 0, FALSE))
      [] o.op = "Else" -> SetTop(c, Frame("Else", 0, FALSE))
      [] o.op = "End" ->
            IF Len(c) = 1 THEN <<>> ELSE Pop1(c)
      [] o.op \in {"Br", "Return"} -> SetTop(c, Frame(f.kind, 0, TRUE))
      [] o.op = "BrIf" ->
            SetTop(c, AfterPush(AfterPop(f, 1 + LabelArity(c, o.a)), LabelArity(c, o.a)))
      [] OTHER -> SetTop(c, AfterPush(AfterPop(f, ValPops(o)), ValPushes(o)))

IsValidOp(c, o) ==
    LET f == Top(c)
        want == IF Len(c) = 1 THEN total_results ELSE 0
    IN
    CASE o.op = "If" -> CanPop(f, 1)
      [] o.op = "Else" -> f.kind = "If" /\ f.h = 0
      [] o.op = "End" -> f.h = want \/ (f.unr /\ f.h <= want)
      [] o.op = "Br" -> o.a < Len(c) /\ CanPop(f, LabelArity(c, o.a))
      [] o.op = "BrIf" -> o.a < Len(c) /\ CanPop(f, 1 + LabelArity(c, o.a))
      [] o.op = "Return" -> CanPop(f, total_results)
      [] OTHER -> CanPop(f, ValPops(o))

ReadOp(alphabet, maxLen) ==
    /\ stage = "parse"
    /\ \E o \in alphabet :
        /\ IsValidOp(ctrl, o)
        /\ LET c == ValidNext(ctrl, o) IN
            \* the body can still be closed within maxLen opcodes
            /\ Len(body) + 1 + Len(c) <= maxLen
            /\ body' = Append(body, o)
            /\ ctrl' = c
            /\ stage' = IF c = <<>> THEN "analyze" ELSE "parse"
    /\ UNCHANGED <<ip, stack, instrs, slices, genI, probes, probes2,
                   minProbes, total_results, runOut>>

----------------------------------------------------------------------------
(* Analyzer (analyze.rs) *)

Org(t, i, x) == [t |-> t, i |-> i, x |-> x]
Untracked == Org("Untracked", 0, 0)

Info(k, ins) == [kind |-> k, inputs |-> ins]

\* the last n origins of the stack, bottom first (inputs.insert(0, pop))
LastN(s, n) == SubSeq(s, Len(s) - n + 1, Len(s))
DropN(s, n) == SubSeq(s, 1, Len(s) - n)

\* [i |-> i, x |-> r] for r = 0 .. n-1 as origins of kind t
Results(t, i, n) == [r \in 1..n |-> Org(t, i, r - 1)]
UntrackedN(n) == [r \in 1..n |-> Untracked]

\* stack_effects for the opcodes that reach the catch-all arm of analyze
stack_effects(o) ==
    CASE o.op = "Drop" -> <<1, 0>>
      [] o.op = "I32And" -> <<2, 1>>
      [] OTHER -> <<0, 0>>     \* Block/Loop (empty type), Else, End, Br, Nop

\* how many origins the arm of opcode o pops with unwrap()
AnPops(o) ==
    CASE o.op \in {"I32Const", "LocalGet", "GlobalGet", "Return"} -> 0
      [] o.op \in {"LocalSet", "LocalTee", "GlobalSet", "I32Load", "I32Eqz",
                   "BrIf", "If"} -> 1
      [] o.op = "I32Add" -> 2
      [] o.op = "Select" -> 3
      [] o.op \in {"Call", "CallIndirect"} -> TypeParams(o.a)
      [] OTHER -> stack_effects(o)[1]

\* the origins the arm of opcode o at index i pushes, given the popped inputs
AnPushes(o, i, ins) ==
    CASE o.op = "I32Const" -> <<Org("Const", i, 0)>>
      [] o.op = "LocalGet" ->
            \* local_origin is empty: get() is None for every local
            <<IF o.a < total_params THEN Org("Param", i, o.a) ELSE Untracked>>
      [] o.op = "LocalTee" -> ins
      [] o.op = "GlobalGet" -> <<Org("Global", i, o.a)>>
      [] o.op = "I32Load" -> <<Org("Load", i, 0)>>
      [] o.op \in {"I32Eqz", "I32Add", "Select"} -> <<Org("Instr", i, 0)>>
      [] o.op = "Call" -> Results("Call", i, TypeResults(o.a))
      [] o.op = "CallIndirect" -> Results("CallIndirect", i, TypeResults(o.a))
      [] o.op \in {"LocalSet", "GlobalSet", "BrIf", "If", "Return"} -> <<>>
      [] OTHER -> UntrackedN(stack_effects(o)[2])

AnKind(o) == IF o.op \in {"BrIf", "If", "Select"} THEN "Control" ELSE "Other"

\* the arm panics: unwrap() of an empty stack, or local_origin[lid] out of bounds
AnPanics(o, s) ==
    \/ Len(s) < AnPops(o)
    \/ o.op \in {"LocalSet", "LocalTee"}

\* Return pops total_results origins without unwrap and logs no InstrInfo
AnalyzeOp ==
    /\ stage = "analyze"
    /\ ip < Len(body)
    /\ LET o == OpAt(ip)
           n == AnPops(o)
           ins == LastN(stack, n)
       IN  IF AnPanics(o, stack)
           THEN /\ stage' = "panic_analyze"
                /\ UNCHANGED <<ip, stack, instrs>>
           ELSE /\ stage' = "analyze"
                /\ ip' = ip + 1
                /\ IF o.op = "Return"
                   THEN /\ stack' = DropN(stack, IF Len(stack) < total_results
                                                 THEN Len(stack) ELSE total_results)
                        /\ instrs' = instrs
                   ELSE /\ stack' = DropN(stack, n) \o AnPushes(o, ip, ins)
                        /\ instrs' = Append(instrs, Info(AnKind(o), ins))
    /\ UNCHANGED <<body, ctrl, slices, genI, probes, probes2, minProbes, total_results, runOut>>

\* the assertion after the last opcode, then FuncState::new
AnalyzeDone ==
    /\ stage = "analyze"
    /\ ip = Len(body)
    /\ stage' = IF Len(stack) = total_results \/ stack = <<>> THEN "slice" ELSE "panic_analyze"
    /\ UNCHANGED <<body, ctrl, ip, stack, instrs, slices, genI, probes, probes2,
                   minProbes, total_results, runOut>>

----------------------------------------------------------------------------
(* Slicer (slice.rs: slice_program, slice).  Every value of the modelled   *)
(* function is an I32, so a map from keys to DataType is the set of keys.  *)

is_loop(o) == o.op = "Loop"

\* index in tail of the End that closes the section tail starts in
RECURSIVE FindEnd(_, _, _)
FindEnd(tail, k, depth) ==
    IF k > Len(tail) THEN Len(tail)
    ELSE IF IsBlockOp(tail[k]) THEN FindEnd(tail, k + 1, depth + 1)
    ELSE IF tail[k].op = "End"
         THEN IF depth = 0 THEN k - 1 ELSE FindEnd(tail, k + 1, depth - 1)
    ELSE FindEnd(tail, k + 1, depth)

find_subsection_end(tail) == FindEnd(tail, 1, 0)

\* &v[from..] and &v[from..to] with 0-based bounds
From(v, from) == SubSeq(v, from + 1, Len(v))
Range(v, from, to) == SubSeq(v, from + 1, to)

NewSlice(start, len, name, st) ==
    [start_instr_idx |-> start, end_instr_idx |-> start + len, spec_name |-> name,
     max_slice |-> st.inc, min_slice |-> {}, instrs_support |-> {},
     params |-> st.params, globals |-> st.globals, loads |-> st.loads,
     calls |-> st.calls, call_indirects |-> st.cis, taken |-> {}]

\* the included_* collections of slice when the worklist starts; enq lists, in
\* order, each <<j, inputs>> the Instr arm pushed to the worklist and pops
\* counts the origins popped
EmptyIncluded ==
    [inc |-> {}, params |-> {}, globals |-> {}, loads |-> {}, calls |-> {}, cis |-> {},
     enq |-> <<>>, pops |-> 0]

\* instrs_info.get(instr_idx).map(|i| i.inputs.clone()).unwrap_or_default()
InputsAt(infos, j) == IF j < Len(infos) THEN infos[j + 1].inputs ELSE <<>>

\* `while let Some(origin) = worklist.pop_front()` of slice
RECURSIVE Trace(_, _, _)
Trace(infos, wl, st0) ==
    IF wl = <<>> THEN st0
    ELSE
      LET o == Head(wl)
          rest == Tail(wl)
          st == [st0 EXCEPT !.pops = @ + 1]
          withI == [st EXCEPT !.inc = @ \cup {o.i}]
      IN CASE o.t = "Instr" ->
                IF o.i \in st.inc THEN Trace(infos, rest, st)
                ELSE Trace(infos, rest \o InputsAt(infos, o.i),
                           [withI EXCEPT !.enq = Append(@, <<o.i, InputsAt(infos, o.i)>>)])
           [] o.t = "Load" ->
                IF o.i \in st.loads THEN Trace(infos, rest, st)
                ELSE Trace(infos, rest, [withI EXCEPT !.loads = @ \cup {o.i}])
           [] o.t = "Call" ->
                IF <<o.i, o.x>> \in st.calls THEN Trace(infos, rest, st)
                ELSE Trace(infos, rest, [withI EXCEPT !.calls = @ \cup {<<o.i, o.x>>}])
           [] o.t = "CallIndirect" ->
                IF <<o.i, o.x>> \in st.cis THEN Trace(infos, rest, st)
                ELSE Trace(infos, rest, [withI EXCEPT !.cis = @ \cup {<<o.i, o.x>>}])
           [] o.t = "Global" ->
                Trace(infos, rest, [withI EXCEPT !.globals = @ \cup {<<o.x, o.i>>}])
           [] o.t = "Param" ->
                Trace(infos, rest, [withI EXCEPT !.params = @ \cup {<<o.x, o.i>>}])
           [] o.t = "Const" -> Trace(infos, rest, withI)
           [] OTHER -> Trace(infos, rest, st)

\* add_slice: a later insert under the same key replaces the earlier one
add_slice(res, k, sl) == (k :> sl) @@ res

\* slice(result, fid, spec_name, true_start, instrs_info, ..): the walk over
\* instrs_info from relative index i, then the worklist and add_slice.
\* r = [ok, slices, logs]; ok = FALSE is a panic (index out of range, unwrap of
\* None); logs keeps, per slice, what its worklist did.
RECURSIVE slice(_, _, _, _, _, _, _)
slice(r, name, true_start, infos, i, wl, inc) ==
    IF ~r.ok THEN r
    ELSE IF i >= Len(infos)
    THEN LET st == Trace(infos, wl, [EmptyIncluded EXCEPT !.inc = inc])
         IN  [r EXCEPT !.slices =
                  add_slice(@, true_start, NewSlice(true_start, Len(infos), name, st)),
                       !.logs =
                  add_slice(@, true_start,
                            [seeds |-> Len(wl), seeded |-> inc,
                             enq |-> st.enq, pops |-> st.pops])]
    ELSE LET t == true_start + i IN
         IF t >= Len(body) THEN [r EXCEPT !.ok = FALSE]
         ELSE IF is_loop(OpAt(t))
         THEN IF i + 1 > Len(body) THEN [r EXCEPT !.ok = FALSE]
              ELSE LET end == find_subsection_end(From(body, i + 1)) IN
                   IF i + 1 + end > Len(infos) THEN [r EXCEPT !.ok = FALSE]
                   ELSE LET sub == slice(r, <<"_loop_at_", t>>, t + 1,
                                         Range(infos, i + 1, i + 1 + end), 0, <<>>, {})
                        IN  slice(sub, name, true_start, infos, i + end + 2, wl, inc)
         ELSE IF infos[i + 1].kind = "Control"
         THEN slice(r, name, true_start, infos, i + 1,
                    wl \o infos[i + 1].inputs, inc \cup {t})
         ELSE slice(r, name, true_start, infos, i + 1, wl, inc)

slice_program ==
    slice([ok |-> TRUE, slices |-> <<>>, logs |-> <<>>], <<>>, 0, instrs, 0, <<>>, {})

SliceProgram ==
    /\ stage = "slice"
    /\ LET r == slice_program IN
        IF r.ok THEN stage' = "structure" /\ slices' = r.slices
        ELSE stage' = "panic_slice" /\ slices' = slices
    /\ UNCHANGED <<body, ctrl, ip, stack, instrs, genI, probes, probes2,
                   minProbes, total_results, runOut>>

----------------------------------------------------------------------------
(* Structuralizer (slice.rs: IdentifyStructure, save_structure, visit_op)  *)

\* conditional and unconditional branches
is_branching_op(o) == o.op \in {"Br", "BrIf", "BrTable"}

IdentifyStructure ==
    [nested_blocks |-> <<>>, block_support_instrs |-> {}, block_has_instrs |-> FALSE,
     save_block_for_slice |-> <<>>]

block_enter(st, idx) ==
    [st EXCEPT !.nested_blocks = Append(@, idx),
               !.save_block_for_slice = Append(@, FALSE)]

\* nested_blocks.pop(), save_block_for_slice.pop(): None on an empty vector
block_exit(st) ==
    LET n == st.nested_blocks
        rest == IF n = <<>> THEN <<>> ELSE Pop1(n)
    IN  [st EXCEPT !.nested_blocks = rest,
                   !.save_block_for_slice = IF @ = <<>> THEN <<>> ELSE Pop1(@),
                   !.block_has_instrs = IF rest = <<>> THEN FALSE ELSE @]

save_block_for_slice(st) ==
    [st EXCEPT !.save_block_for_slice = SetTop(@, TRUE)]

add_block_support(st, idx) ==
    [st EXCEPT !.block_support_instrs = @ \cup {idx}]

\* visit_op: [state, support] - the state after the opcode and the returned set
visit_op(o, idx, at_func_end, is_in_slice, st) ==
    LET is_cf == is_branching_op(o) \/ o.op = "Return"
        out(s2, inc) == [state |-> s2, support |-> IF is_in_slice THEN {} ELSE inc]
    IN
    IF IsBlockOp(o)
    THEN LET e == block_enter(st, idx)
         IN  out(IF is_in_slice THEN save_block_for_slice(e) ELSE e, {})
    ELSE IF o.op = "Else" THEN out(add_block_support(st, idx), {})
    ELSE IF o.op = "End"
    THEN LET a == add_block_support(st, idx)
             has == a.block_has_instrs
             popped == ~at_func_end /\ a.nested_blocks # <<>>
             should_save == popped /\ Top(a.save_block_for_slice)
             x == IF at_func_end THEN a ELSE block_exit(a)
         IN  IF has \/ should_save
             THEN out([x EXCEPT !.block_support_instrs = {}],
                      x.block_support_instrs
                        \cup (IF popped THEN {Top(a.nested_blocks)} ELSE {}))
             ELSE out(x, {})
    ELSE LET h == IF is_in_slice /\ st.nested_blocks # <<>>
                  THEN [st EXCEPT !.block_has_instrs = TRUE] ELSE st
         IN  out(IF is_cf THEN add_block_support(h, idx) ELSE h, {})

\* save_structure's loop with in_slice taken from max_slice and instrs_support
\* together, the way gen_func tests membership
RECURSIVE StructureFromUnion(_, _, _, _)
StructureFromUnion(i, st, max_slice, support) ==
    IF i >= Len(body) THEN support
    ELSE LET v == visit_op(OpAt(i), i, i = Len(body) - 1,
                           i \in max_slice \cup support, st)
         IN  StructureFromUnion(i + 1, v.state, max_slice, support \cup v.support)

\* the loop of save_structure over the whole body for one slice
RECURSIVE StructureFrom(_, _, _, _)
StructureFrom(i, st, max_slice, support) ==
    IF i >= Len(body) THEN support
    ELSE LET v == visit_op(OpAt(i), i, i = Len(body) - 1, i \in max_slice, st)
         IN  StructureFrom(i + 1, v.state, max_slice, support \cup v.support)

save_structure(sl) ==
    [sl EXCEPT !.instrs_support =
        StructureFrom(0, IdentifyStructure, sl.max_slice, sl.instrs_support)]

SaveStructure ==
    /\ stage = "structure"
    /\ slices' = [k \in DOMAIN slices |-> save_structure(slices[k])]
    /\ stage' = "codegen"
    /\ UNCHANGED <<body, ctrl, ip, stack, instrs, genI, probes, probes2,
                   minProbes, total_results, runOut>>

\* save_structure called once more on the structured slices
SaveStructureAgain ==
    /\ stage = "codegen"
    /\ genI = 0
    /\ stage' = "structured2"
    /\ slices' = [k \in DOMAIN slices |-> save_structure(slices[k])]
    /\ UNCHANGED <<body, ctrl, ip, stack, instrs, genI, probes, probes2,
                   minProbes, total_results, runOut>>

----------------------------------------------------------------------------
(* Probe synthesizer (codegen.rs)                                          *)

\* the orders in which iterating a HashMap with key set S can yield its keys
Orders(S) ==
    { f \in [1..Cardinality(S) -> S] : \A a, b \in 1..Cardinality(S) : f[a] = f[b] => a = b }

\* the key a map of CodeGen is indexed by: the local or global id for for_params
\* and for_globals, the opidx for for_calls and for_call_indirects ("first"),
\* the opidx itself for for_loads ("self")
KeyBy(proj, key) == IF proj = "first" THEN key[1] ELSE key

\* position in ord of the last key that is recorded under x
LastPos(ord, proj, x) ==
    CHOOSE n \in 1..Len(ord) :
        /\ KeyBy(proj, ord[n]) = x
        /\ \A m \in (n + 1)..Len(ord) : KeyBy(proj, ord[m]) # x

\* process_needed_state: every key of the map takes the next parameter index
\* (base + its place in the iteration) and is recorded by res.insert
process_needed_state(ord, base, proj) ==
    [x \in { KeyBy(proj, ord[n]) : n \in 1..Len(ord) } |->
        base + LastPos(ord, proj, x) - 1]

\* process_needed_call: recorded under the call's opidx alone
process_needed_call(ord, base) ==
    [x \in { ord[n][1] : n \in 1..Len(ord) } |->
        [used_arg |-> ord[LastPos(ord, "first", x)][2],
         gen_param_id |-> base + LastPos(ord, "first", x) - 1]]

\* CodeGen::new for the iteration orders o = [params, globals, loads, calls, cis]
CodeGenNew(o) ==
    LET n1 == Len(o.params)
        n2 == n1 + Len(o.globals)
        n3 == n2 + Len(o.loads)
        n4 == n3 + Len(o.calls)
    IN  [for_params |-> process_needed_state(o.params, 0, "first"),
         for_globals |-> process_needed_state(o.globals, n1, "first"),
         for_loads |-> process_needed_state(o.loads, n2, "self"),
         for_calls |-> process_needed_call(o.calls, n3),
         for_call_indirects |-> process_needed_call(o.cis, n4),
         used_params |-> [n \in 1..(n4 + Len(o.cis)) |-> "I32"],
         layout |-> [n \in 1..(n4 + Len(o.cis)) |->
                        IF n <= n1 THEN <<"params", o.params[n]>>
                        ELSE IF n <= n2 THEN <<"globals", o.globals[n - n1]>>
                        ELSE IF n <= n3 THEN <<"loads", o.loads[n - n2]>>
                        ELSE IF n <= n4 THEN <<"calls", o.calls[n - n3]>>
                        ELSE <<"call_indirects", o.cis[n - n4]>>]]

SliceOrders(sl) ==
    [params : Orders(sl.params), globals : Orders(sl.globals), loads : Orders(sl.loads),
     calls : Orders(sl.calls), cis : Orders(sl.call_indirects)]

op_cost(o) == 1

\* an instruction of a generated function; src is the original index it stands for
Emit(o, a, src) == [op |-> o, a |-> a, src |-> src]

\* every opcode injected as it is, Return included
gen_op_plain(opidx, o, g) ==
    IF o.op = "LocalGet"
    THEN IF o.a \in DOMAIN g.for_params
         THEN <<Emit("ParamGet", g.for_params[o.a], opidx)>> ELSE <<>>
    ELSE <<Emit(o.op, o.a, opidx)>>

\* gen_op: the instructions emitted for the opcode at opidx
gen_op(opidx, o, g) ==
    IF o.op = "LocalGet"
    THEN IF o.a \in DOMAIN g.for_params
         THEN <<Emit("ParamGet", g.for_params[o.a], opidx)>> ELSE <<>>
    ELSE IF o.op = "GlobalGet"
    THEN IF o.a \in DOMAIN g.for_globals
         THEN <<Emit("ParamGet", g.for_globals[o.a], opidx)>> ELSE <<>>
    ELSE IF opidx \in DOMAIN g.for_loads
    THEN <<Emit("ParamGet", g.for_loads[opidx], opidx)>>
    ELSE IF opidx \in DOMAIN g.for_calls
    THEN <<Emit("ParamGet", g.for_calls[opidx].gen_param_id, opidx)>>
    ELSE IF opidx \in DOMAIN g.for_call_indirects
    THEN <<Emit("ParamGet", g.for_call_indirects[opidx].gen_param_id, opidx)>>
    ELSE (IF o.op = "Return" THEN <<Emit("FuelGet", 0, opidx)>> ELSE <<>>)
            \o <<Emit(o.op, o.a, opidx)>>

\* an accumulation point at every control-flow opcode, in the slice or not
do_fuel_before_all(is_in_slice, at_func_end, o) ==
    LET is_cf == is_branching_op(o) \/ o.op \in {"If", "Else", "End", "Return"}
    IN  is_cf \/ at_func_end

\* calc_op_cost's verdict, after the opcode's cost was added
do_fuel_before(is_in_slice, at_func_end, o) ==
    LET is_cf == is_branching_op(o) \/ o.op \in {"If", "Else", "End", "Return"}
    IN  (is_cf /\ is_in_slice) \/ at_func_end

\* an accumulation that subtracts the cost from the fuel local
gen_fuel_comp_sub(cost, at) ==
    IF cost > 0 THEN <<Emit("FuelAdd", 0 - cost, at)>> ELSE <<>>

\* gen_fuel_comp_exact: local.get fuel; i64.const cost; i64.add; local.set fuel
gen_fuel_comp_exact(cost, at) ==
    IF cost > 0 THEN <<Emit("FuelAdd", cost, at)>> ELSE <<>>

\* the loop of gen_func over sub = body[start..end] from relative index i0;
\* st = [ok, curr_cost, code, cost_map, visited]; visited lists, in order, the
\* absolute indices of the opcodes calc_op_cost was called for
RECURSIVE GenLoop(_, _, _, _, _)
GenLoop(sl, sub, g, i0, st) ==
    IF ~st.ok \/ i0 >= Len(sub) THEN st
    ELSE
      LET t0 == sl.start_instr_idx + i0
          skip == t0 # sl.start_instr_idx /\ t0 \in DOMAIN slices
          i == IF skip THEN slices[t0].end_instr_idx + 1 ELSE i0
          t == sl.start_instr_idx + i
      IN  IF i >= Len(sub) THEN [st EXCEPT !.ok = FALSE]     \* body[i] out of bounds
          ELSE
            LET o == sub[i + 1]
                in_any == t \in sl.max_slice \/ t \in sl.instrs_support
                cost == st.curr_cost + op_cost(o)
                fuel == do_fuel_before(in_any, i = Len(sub) - 1, o)
                code1 == IF fuel THEN st.code \o gen_fuel_comp_exact(cost, t)
                         ELSE st.code
                code2 == IF in_any THEN code1 \o gen_op(t, o, g) ELSE code1
            IN  GenLoop(sl, sub, g, i + 1,
                        [ok |-> TRUE,
                         curr_cost |-> IF fuel THEN 0 ELSE cost,
                         code |-> code2,
                         cost_map |-> IF fuel THEN st.cost_map \cup {<<t, cost>>}
                                      ELSE st.cost_map,
                         visited |-> Append(st.visited, t)])

\* gen_func: the generated function for slice sl under the iteration orders o
gen_func(sl, o) ==
    LET g == CodeGenNew(o)
        sub == Range(body, sl.start_instr_idx, sl.end_instr_idx)
        r == GenLoop(sl, sub, g, 0,
                     [ok |-> TRUE, curr_cost |-> 0,
                      code |-> <<Emit("Block", 0, -1)>>, cost_map |-> {},
                      visited |-> <<>>])
    IN  [ok |-> r.ok /\ sl.end_instr_idx <= Len(body),
         fname |-> <<"exact", 0>> \o sl.spec_name,
         used_params |-> g.used_params,
         results |-> <<"I64">>,
         layout |-> g.layout,
         for_params |-> g.for_params, for_globals |-> g.for_globals,
         for_loads |-> g.for_loads, for_calls |-> g.for_calls,
         for_call_indirects |-> g.for_call_indirects,
         code |-> r.code \o <<Emit("End", 0, -1), Emit("FuelGet", 0, -1)>>,
         cost_map |-> r.cost_map,
         visited |-> r.visited]

\* the slices gen_from_slices has not reached yet
Pending == { k \in DOMAIN slices : k >= genI /\ k < Len(body) }
NextSlice == CHOOSE k \in Pending : \A j \in Pending : k <= j

\* one iteration of gen_from_slices that finds a slice: gen_func for it
GenFunc ==
    /\ stage \in {"codegen", "codegen2"}
    /\ Pending # {}
    /\ \E o \in SliceOrders(slices[NextSlice]) :
        LET f == gen_func(slices[NextSlice], o) IN
        IF ~f.ok
        THEN stage' = "panic_codegen" /\ UNCHANGED <<genI, probes, probes2>>
        ELSE /\ genI' = NextSlice + 1
             /\ stage' = stage
             /\ IF stage = "codegen"
                THEN probes' = (NextSlice :> f) @@ probes /\ probes2' = probes2
                ELSE probes2' = (NextSlice :> f) @@ probes2 /\ probes' = probes
    /\ UNCHANGED <<body, ctrl, ip, stack, instrs, slices, minProbes, total_results, runOut>>

\* write_bytes reached while gen_from_slices still has slices to generate
WriteBytesEarly ==
    /\ stage \in {"codegen", "codegen2"}
    /\ stage' = IF stage = "codegen" THEN "written" ELSE "written2"
    /\ UNCHANGED <<body, ctrl, ip, stack, instrs, slices, genI, probes, probes2,
                   minProbes, total_results, runOut>>

\* flush_slices, flush_fid_mapping, write_bytes: the generated module is written
WriteBytes ==
    /\ stage \in {"codegen", "codegen2"}
    /\ Pending = {}
    /\ stage' = IF stage = "codegen" THEN "written" ELSE "written2"
    /\ UNCHANGED <<body, ctrl, ip, stack, instrs, slices, genI, probes, probes2,
                   minProbes, total_results, runOut>>

\* do_analysis is run again on the same input: analysis, slices and structure are
\* functions of the input, so the second run differs from here on only
SecondRun ==
    /\ stage = "written"
    /\ stage' = "codegen2"
    /\ genI' = 0
    /\ UNCHANGED <<body, ctrl, ip, stack, instrs, slices, probes, probes2,
                   minProbes, total_results, runOut>>

----------------------------------------------------------------------------
(* Executing a function: the original body and a generated probe.  Values  *)
(* are 0 or 1; env.p is the value of the parameter and env.g the value of  *)
(* every global, load and call result.  A branch leaves a block past its   *)
(* End; an If that is not taken continues after its Else, or past its End. *)

EndOf(code, k) == k + 1 + find_subsection_end(From(code, k))

\* position of the Else of the If at k, 0 when it has none
RECURSIVE FindElse(_, _, _)
FindElse(code, k, depth) ==
    IF k > Len(code) THEN 0
    ELSE IF IsBlockOp(code[k]) THEN FindElse(code, k + 1, depth + 1)
    ELSE IF code[k].op = "End"
         THEN IF depth = 0 THEN 0 ELSE FindElse(code, k + 1, depth - 1)
    ELSE IF code[k].op = "Else" /\ depth = 0 THEN k
    ELSE FindElse(code, k + 1, depth)

ElseOf(code, k) == FindElse(code, k + 1, 0)

\* block depth before every instruction of code; -1 marks a closer without opener
RECURSIVE Depths(_, _, _)
Depths(code, k, d) ==
    IF k > Len(code) THEN <<>>
    ELSE <<d>> \o Depths(code, k + 1,
                         IF d < 0 THEN -1
                         ELSE IF IsBlockOp(code[k]) THEN d + 1
                         ELSE IF code[k].op = "End" THEN d - 1
                         ELSE d)

\* a generated function validates as far as its block structure goes: every End
\* closes a block of the function, every block is closed before the final read of
\* the fuel local, and no branch targets the function itself (that needs an i64)
WellFormedProbe(code) ==
    LET d == Depths(code, 1, 0) IN
    /\ \A k \in 1..Len(code) :
        /\ d[k] >= 0
        /\ code[k].op = "End" => d[k] >= 1
        /\ code[k].op = "Else" => d[k] >= 1
        /\ code[k].op \in {"Br", "BrIf"} => code[k].a < d[k]
        /\ (k < Len(code) - 1 /\ code[k].op = "End") => d[k] >= 2
    /\ d[Len(code)] = 0

\* a local that is no parameter holds its initial 0 (no valid body sets it and
\* passes the analyzer)
Val(env, o) == IF o.op = "LocalGet" THEN (IF o.a < total_params THEN env.p ELSE 0)
               ELSE IF o.op = "I32Const" THEN o.a
               ELSE env.g

\* run code from position pc: st = [ok, vs, frames, fuel, count, trace]
RECURSIVE Exec(_, _, _, _, _)
Exec(code, pc, st, env, args) ==
    IF ~st.ok \/ pc > Len(code) THEN st
    ELSE
      LET o == code[pc]
          vs == st.vs
          n == Len(vs)
          c1 == [st EXCEPT !.count = @ + 1]
          under == [st EXCEPT !.ok = FALSE]
          branch(d, s) ==
              IF d >= Len(s.frames) THEN s          \* leaves the function
              ELSE LET f == s.frames[Len(s.frames) - d] IN
                   Exec(code, f.end + 1,
                        [s EXCEPT !.vs = SubSeq(@, 1, f.h),
                                  !.frames = SubSeq(@, 1, Len(@) - d - 1)],
                        env, args)
          enter(s, to) ==
              Exec(code, to,
                   [s EXCEPT !.frames = Append(@, [end |-> EndOf(code, pc),
                                                    h |-> Len(s.vs)])],
                   env, args)
      IN
      CASE o.op \in {"Block", "Loop"} -> enter(c1, pc + 1)
        [] o.op = "If" ->
              IF n < 1 THEN under
              ELSE LET s == [c1 EXCEPT !.vs = Pop1(vs)] IN
                   IF vs[n] # 0 THEN enter(s, pc + 1)
                   ELSE IF ElseOf(code, pc) # 0 THEN enter(s, ElseOf(code, pc) + 1)
                   ELSE Exec(code, EndOf(code, pc) + 1, s, env, args)
        [] o.op = "Else" -> branch(0, c1)
        [] o.op = "End" ->
              IF st.frames = <<>> THEN c1
              ELSE Exec(code, pc + 1, [c1 EXCEPT !.frames = Pop1(@)], env, args)
        [] o.op = "Br" -> branch(o.a, c1)
        [] o.op = "BrIf" ->
              IF n < 1 THEN under
              ELSE LET s == [c1 EXCEPT !.vs = Pop1(vs)] IN
                   IF vs[n] # 0 THEN branch(o.a, s) ELSE Exec(code, pc + 1, s, env, args)
        [] o.op = "Return" -> c1
        [] o.op = "Nop" -> Exec(code, pc + 1, c1, env, args)
        [] o.op = "Drop" ->
              IF n < 1 THEN under
              ELSE Exec(code, pc + 1, [c1 EXCEPT !.vs = Pop1(vs)], env, args)
        [] o.op \in {"LocalGet", "GlobalGet", "I32Const"} ->
              Exec(code, pc + 1, [c1 EXCEPT !.vs = Append(vs, Val(env, o))], env, args)
        [] o.op = "I32Eqz" ->
              IF n < 1 THEN under
              ELSE Exec(code, pc + 1,
                        [c1 EXCEPT !.vs = Append(Pop1(vs), IF vs[n] = 0 THEN 1 ELSE 0)],
                        env, args)
        [] o.op = "I32And" ->
              IF n < 2 THEN under
              ELSE Exec(code, pc + 1,
                        [c1 EXCEPT !.vs = Append(SubSeq(vs, 1, n - 2), vs[n - 1] * vs[n])],
                        env, args)
        [] o.op = "Select" ->
              IF n < 3 THEN under
              ELSE Exec(code, pc + 1,
                        [c1 EXCEPT !.vs = Append(SubSeq(vs, 1, n - 3),
                                                 IF vs[n] # 0 THEN vs[n - 2] ELSE vs[n - 1])],
                        env, args)
        [] o.op \in {"I32Load", "CallIndirect"} ->
              IF n < 1 THEN under
              ELSE Exec(code, pc + 1,
                        [c1 EXCEPT !.vs = Pop1(vs) \o [r \in 1..ValPushes(o) |-> env.g]],
                        env, args)
        [] o.op = "Call" ->
              Exec(code, pc + 1,
                   [c1 EXCEPT !.vs = vs \o [r \in 1..ValPushes(o) |-> env.g]], env, args)
        [] o.op = "ParamGet" ->
              Exec(code, pc + 1, [st EXCEPT !.vs = Append(vs, args[o.a + 1])], env, args)
        [] o.op = "FuelAdd" ->
              Exec(code, pc + 1,
                   [st EXCEPT !.fuel = @ + o.a, !.trace = Append(@, st.fuel + o.a)],
                   env, args)
        [] o.op = "FuelGet" ->
              Exec(code, pc + 1, [st EXCEPT !.vs = Append(vs, st.fuel)], env, args)
        [] OTHER -> under

\* the fuel local is a fresh local: 0; trace lists the values it takes
Start == [ok |-> TRUE, vs |-> <<>>, frames |-> <<>>, fuel |-> 0, count |-> 0,
          trace |-> <<0>>]

\* the cost of the path the original function takes under env (unit costs)
PathCost(env) == Exec(body, 1, Start, env, <<>>).count

\* the parameter vector that reproduces env: each parameter gets the value of the
\* state its key names
ArgsFor(f, env) ==
    [n \in 1..Len(f.layout) |-> IF f.layout[n][1] = "params" THEN env.p ELSE env.g]

\* the i64 the probe returns on those arguments, -1 when the probe does not validate
ProbeFuel(f, env) ==
    LET r == Exec(f.code, 1, Start, env, ArgsFor(f, env)) IN
    IF WellFormedProbe(f.code) /\ r.ok THEN r.fuel ELSE -1

\* the values the fuel local takes while the probe runs on those arguments
FuelTrace(f, env) == Exec(f.code, 1, Start, env, ArgsFor(f, env)).trace

Envs == [p : {0, 1}, g : {0, 1}]

\* the test harness calls the function-level probe (tests/utils.rs test_run) and
\* the original function runs on the same state; bodies without loops only
RunProbe ==
    /\ stage = "written"
    /\ \A i \in 1..Len(body) : body[i].op # "Loop"
    /\ \E env \in Envs :
        runOut' = [start |-> 0, env |-> env,
                   fuel |-> ProbeFuel(probes[0], env), path |-> PathCost(env),
                   trace |-> FuelTrace(probes[0], env)]
    /\ stage' = "ran"
    /\ UNCHANGED <<body, ctrl, ip, stack, instrs, slices, genI, probes, probes2,
                   minProbes, total_results>>

----------------------------------------------------------------------------
(* Reducer (reduce.rs).  reduce_slice visits the first opcode of the body  *)
(* for the first slice and visit_op is todo!(): it panics before min_slice *)
(* or taken get an entry.  do_analysis (run.rs) does not call it and       *)
(* writes no minimal module.                                               *)

ReduceSlice ==
    /\ stage = "codegen"
    /\ genI = 0
    /\ DOMAIN slices # {} /\ Len(body) > 0
    /\ stage' = "panic_reduce"
    /\ UNCHANGED <<body, ctrl, ip, stack, instrs, slices, genI, probes, probes2,
                   minProbes, total_results, runOut>>

----------------------------------------------------------------------------
\* the state when do_analysis starts on a function with r results
Entry(r) ==
    /\ stage = "parse"
    /\ body = <<>>
    /\ ctrl = <<Frame("Func", 0, FALSE)>>
    /\ ip = 0
    /\ stack = <<>>
    /\ instrs = <<>>
    /\ slices = <<>>
    /\ genI = 0
    /\ probes = <<>>
    /\ probes2 = <<>>
    /\ minProbes = <<>>
    /\ runOut = <<>>
    /\ total_results = r

\* a function of type [i32] -> []
Init == Entry(0)

\* a function of type [i32] -> [i32]
InitRes == Entry(1)

Pipeline ==
    \/ AnalyzeOp
    \/ AnalyzeDone
    \/ SliceProgram
    \/ SaveStructure
    \/ SaveStructureAgain
    \/ ReduceSlice
    \/ GenFunc
    \/ WriteBytes
    \/ SecondRun
    \/ RunProbe

\* modules of control-flow opcodes
Next == ReadOp(OpsCF, MaxLen) \/ Pipeline
Spec == Init /\ [][Next]_vars

\* modules of state-reading opcodes
NextState == ReadOp(OpsState, MaxLenState) \/ Pipeline
SpecState == Init /\ [][NextState]_vars

\* modules with Return
NextRet == ReadOp(OpsRet, MaxLenRet) \/ Pipeline
SpecRet == Init /\ [][NextRet]_vars

\* modules of nested blocks with unconditional branches
NextStruct == ReadOp(OpsStruct, MaxLenStruct) \/ Pipeline
SpecStruct == Init /\ [][NextStruct]_vars

\* modules of constants, locals, arithmetic and Select
NextArith == ReadOp(OpsArith, MaxLenArith) \/ Pipeline
SpecArith == Init /\ [][NextArith]_vars

\* functions that return a value
NextRes == ReadOp(OpsRes, MaxLenRes) \/ Pipeline
SpecRes == InitRes /\ [][NextRes]_vars

----------------------------------------------------------------------------
(* Properties *)

\* stages in which the slicer has returned, and in which save_structure has
Sliced == stage \in {"structure", "codegen", "codegen2", "written", "written2",
                     "ran", "panic_codegen", "panic_reduce"}
Structured == Sliced /\ stage # "structure"

\* 0-based index of the End (Else) matching the opener at 0-based index i of body
EndIdx(i) == EndOf(body, i + 1) - 1
ElseIdx(i) == ElseOf(body, i + 1) - 1
HasElse(i) == body[i + 1].op = "If" /\ ElseOf(body, i + 1) # 0

\* C1: for every slice and every input state, the fuel the maximal probe
\* returns on the parameters drawn from that state equals the sum of the costs
\* of the original opcodes on the path the original code takes through the
\* slice's range (exact probe, unit costs)
C1_FuelIsPathCost ==
    stage = "ran" => runOut.fuel = runOut.path

\* C2: when the output is written, every slice has a minimal probe, and on
\* every input state it returns the fuel the maximal probe returns
C2_MinProbeAgrees ==
    stage \in {"written", "ran"} =>
        \A k \in DOMAIN probes :
            /\ k \in DOMAIN minProbes
            /\ \A env \in Envs :
                ProbeFuel(minProbes[k], env) = ProbeFuel(probes[k], env)

\* what of a generated function reaches the output module
ModuleOf(f) ==
    [fname |-> f.fname, used_params |-> f.used_params, results |-> f.results,
     code |-> f.code]

\* C3: two runs on the same input write the same module: the same functions
\* with the same parameters and the same code, whatever order the maps of
\* needed state are iterated in
C3_Deterministic ==
    stage = "written2" =>
        /\ DOMAIN probes2 = DOMAIN probes
        /\ \A k \in DOMAIN probes : ModuleOf(probes2[k]) = ModuleOf(probes[k])

\* the maps of a slice by category, and the keys of a slice as <<category, key>>
KeysOf(sl, cat) ==
    CASE cat = "params" -> sl.params
      [] cat = "globals" -> sl.globals
      [] cat = "loads" -> sl.loads
      [] cat = "calls" -> sl.calls
      [] cat = "call_indirects" -> sl.call_indirects

Categories == <<"params", "globals", "loads", "calls", "call_indirects">>
CatRank(cat) == CHOOSE n \in 1..5 : Categories[n] = cat
AllKeys(sl) == UNION { { <<Categories[n], key>> : key \in KeysOf(sl, Categories[n]) }
                       : n \in 1..5 }

\* the parameter index CodeGen records for a key, -1 when it records none
Recorded(f, cat, key) ==
    CASE cat = "params" ->
            IF key[1] \in DOMAIN f.for_params THEN f.for_params[key[1]] ELSE -1
      [] cat = "globals" ->
            IF key[1] \in DOMAIN f.for_globals THEN f.for_globals[key[1]] ELSE -1
      [] cat = "loads" ->
            IF key \in DOMAIN f.for_loads THEN f.for_loads[key] ELSE -1
      [] cat = "calls" ->
            IF key[1] \in DOMAIN f.for_calls /\ f.for_calls[key[1]].used_arg = key[2]
            THEN f.for_calls[key[1]].gen_param_id ELSE -1
      [] cat = "call_indirects" ->
            IF key[1] \in DOMAIN f.for_call_indirects
               /\ f.for_call_indirects[key[1]].used_arg = key[2]
            THEN f.for_call_indirects[key[1]].gen_param_id ELSE -1

\* the original instruction a key stands for
KeyInstr(cat, key) ==
    CASE cat \in {"params", "globals"} -> key[2]
      [] cat = "loads" -> key
      [] OTHER -> key[1]

\* C4: in a maximal probe the mapping from slice keys to parameter indices is
\* one-to-one: every key of every category has a recorded index, two keys
\* never share one, and the parameter read emitted for a state-reading opcode
\* is the parameter allocated to the key of that opcode
C4_KeysOneToOne ==
    stage \in {"written", "ran"} =>
        \A k \in DOMAIN probes :
            LET f == probes[k]
                K == AllKeys(slices[k])
            IN  /\ \A a \in K : Recorded(f, a[1], a[2]) \in 0..(Len(f.used_params) - 1)
                /\ \A a, b \in K :
                    Recorded(f, a[1], a[2]) = Recorded(f, b[1], b[2]) => a = b
                /\ \A n \in 1..Len(f.code) :
                    f.code[n].op = "ParamGet" =>
                        LET a == f.layout[f.code[n].a + 1] IN
                        KeyInstr(a[1], a[2]) = f.code[n].src

KeyLess(cat, a, b) ==
    IF cat = "loads" THEN a < b
    ELSE a[1] < b[1] \/ (a[1] = b[1] /\ a[2] < b[2])

\* C5: a maximal probe has exactly one parameter per entry of the slice's
\* maps, laid out category by category (params, globals, loads, calls,
\* call_indirects) and in ascending key order within a category, and it
\* returns a single i64
C5_ParamLayout ==
    stage \in {"written", "ran"} =>
        \A k \in DOMAIN probes :
            LET f == probes[k]
                L == f.layout
            IN  /\ Len(f.used_params) = Cardinality(AllKeys(slices[k]))
                /\ \A m, n \in 1..Len(L) :
                    m < n =>
                        \/ CatRank(L[m][1]) < CatRank(L[n][1])
                        \/ L[m][1] = L[n][1] /\ KeyLess(L[m][1], L[m][2], L[n][2])
                /\ f.results = <<"I64">>

\* C6: every index of a slice's max_slice lies in the slice's range
\* [start_instr_idx, end_instr_idx)
C6_MaxSliceInRange ==
    \A k \in DOMAIN slices :
        slices[k].max_slice \subseteq
            slices[k].start_instr_idx..(slices[k].end_instr_idx - 1)

\* C7: after the structuralizer, every If, Block or Loop opener in the union
\* of max_slice and instrs_support has its matching End, and the Else of an
\* If that has one, in the union as well
C7_OpenersClosed ==
    Structured =>
        \A k \in DOMAIN slices :
            LET U == slices[k].max_slice \cup slices[k].instrs_support IN
            \A i \in U :
                (i < Len(body) /\ IsBlockOp(body[i + 1])) =>
                    /\ EndIdx(i) \in U
                    /\ HasElse(i) => ElseIdx(i) \in U

\* the original structure opcodes a generated function carries, in order,
\* the function's own final End left out
Brackets(f) ==
    SelectSeq(f.code, LAMBDA e : /\ e.src >= 0
                                 /\ e.src # Len(body) - 1
                                 /\ e.op \in {"Block", "Loop", "If", "Else", "End"})

\* C8: the opcodes emitted into a probe are well-bracketed: every emitted End
\* or Else has an emitted opener before it, and every emitted opener has an
\* emitted End after it
C8_WellBracketed ==
    stage \in {"written", "ran"} =>
        \A k \in DOMAIN probes :
            LET b == Brackets(probes[k])
                d == Depths(b, 1, 0)
            IN  /\ \A n \in 1..Len(b) : d[n] >= 0
                /\ \A n \in 1..Len(b) : b[n].op \in {"End", "Else"} => d[n] >= 1
                /\ b # <<>> => (b[Len(b)].op = "End" /\ d[Len(b)] = 1)

\* C9: an origin among the inputs of the instruction at position i of the
\* instrs vector names a strictly earlier position
C9_InputsEarlier ==
    \A i \in 1..Len(instrs) :
        \A n \in 1..Len(instrs[i].inputs) :
            instrs[i].inputs[n].t # "Untracked" => instrs[i].inputs[n].i < i - 1

LoopIdx == { i \in 0..(Len(body) - 1) : body[i + 1].op = "Loop" }

\* C10: the slicer produces exactly one function-level slice [0, length of
\* the body) and one slice per Loop opcode at any depth, covering the
\* instructions strictly between the Loop and its End and named
\* _loop_at_<index of the Loop>
C10_SlicesPerLoop ==
    /\ stage # "panic_slice"
    /\ Sliced =>
        /\ DOMAIN slices = {0} \cup { i + 1 : i \in LoopIdx }
        /\ slices[0].start_instr_idx = 0
        /\ slices[0].end_instr_idx = Len(body)
        /\ slices[0].spec_name = <<>>
        /\ \A i \in LoopIdx :
            /\ slices[i + 1].start_instr_idx = i + 1
            /\ slices[i + 1].end_instr_idx = EndIdx(i)
            /\ slices[i + 1].spec_name = <<"_loop_at_", i>>

\* the opcodes whose stack input decides control flow
IsControlOp(o) == o.op \in {"BrIf", "BrTable", "If", "Return"}
NoControl == \A n \in 1..Len(body) : ~IsControlOp(body[n])

\* C11: for a body with no conditional branch, no If and no Return, the
\* function-level max_slice is empty and the function-level probe returns the
\* sum of the costs of all instructions of the body
C11_FlatCost ==
    /\ (Sliced /\ NoControl) => slices[0].max_slice = {}
    /\ (stage \in {"written", "ran"} /\ NoControl) =>
            \A env \in Envs : ProbeFuel(probes[0], env) = Len(body)

\* C12: running the structuralizer a second time on the slices it has
\* processed changes neither max_slice nor instrs_support of any slice
C12_StructureIdempotent ==
    [][stage' = "structured2" =>
        /\ DOMAIN slices' = DOMAIN slices
        /\ \A k \in DOMAIN slices :
            /\ slices'[k].max_slice = slices[k].max_slice
            /\ slices'[k].instrs_support = slices[k].instrs_support]_vars

\* the second run happened on a slice that has support instructions
C12_Witness ==
    /\ stage = "structured2"
    /\ \E k \in DOMAIN slices :
        slices[k].instrs_support # {} /\ slices[k].max_slice # {}

\* the stages of do_analysis in the order of run.rs; the second run's
\* synthesizer and write follow the first run's; -1 for a failure and for what
\* is no stage of the pipeline
StageRank(s) ==
    CASE s = "parse" -> 0
      [] s = "analyze" -> 1
      [] s = "slice" -> 2
      [] s = "structure" -> 3
      [] s = "codegen" -> 4
      [] s = "written" -> 5
      [] s = "codegen2" -> 6
      [] s = "written2" -> 7
      [] OTHER -> -1

Failed(s) == s \in {"panic_analyze", "panic_slice", "panic_codegen", "panic_reduce"}

\* every stage before the write has run to completion for the run that writes gen
AllDone(gen) ==
    /\ ctrl = <<>>
    /\ ip = Len(body)
    /\ Len(stack) = total_results \/ stack = <<>>
    /\ 0 \in DOMAIN slices
    /\ DOMAIN gen = { k \in DOMAIN slices : k < Len(body) }

\* C13: the stages run strictly in the order analyzer, slicer, structuralizer,
\* synthesizer, each to completion; the output module is written only after
\* all of them have completed, and after a failed stage nothing is written
C13_StagesInOrder ==
    [][/\ Failed(stage) => stage' = stage
       /\ (stage' # stage /\ StageRank(stage') >= 0) =>
            StageRank(stage') = StageRank(stage) + 1
       /\ (stage' # stage /\ stage' = "written") => AllDone(probes)'
       /\ (stage' # stage /\ stage' = "written2") => AllDone(probes2)']_vars

\* a module with a nested block was written after all stages
C13_Witness ==
    /\ stage = "written"
    /\ Len(body) >= 4
    /\ slices[0].instrs_support # {}
    /\ 0 \in DOMAIN probes

\* the origins opcode o needs on the stack: Return needs one per result
NeedPops(o) == IF o.op = "Return" THEN total_results ELSE AnPops(o)

\* C14: whenever the opcode the analyzer is at needs to pop more origins than
\* the stack holds, the analysis ends in a fatal error; no opcode, Return
\* included, continues with an underflowed stack
C14_UnderflowIsFatal ==
    [][(/\ stage = "analyze"
        /\ ip < Len(body)
        /\ Len(stack) < NeedPops(OpAt(ip))) => stage' = "panic_analyze"]_vars

\* C15: the analyzer logs one record per opcode, of kind Control exactly for
\* the conditional branches, If and Return, and of kind Other for every other
\* opcode (Select, Block, Loop, Br included)
C15_ControlKinds ==
    stage = "slice" =>
        /\ Len(instrs) = Len(body)
        /\ \A n \in 1..Len(body) :
            n <= Len(instrs) =>
                (instrs[n].kind = "Control" <=> IsControlOp(body[n]))

IsCondBranchOrIf(o) == o.op \in {"BrIf", "BrTable", "If"}

\* C16: once reduce_slice has been called, an index of the slice's range is
\* in min_slice exactly when its opcode is a conditional branch, an If or a
\* Return, and taken holds exactly the conditional branches and the Ifs
C16_MinSliceIsControl ==
    stage = "panic_reduce" =>
        \A k \in DOMAIN slices :
            LET sl == slices[k]
                rng == { i \in sl.start_instr_idx..(sl.end_instr_idx - 1) : i < Len(body) }
            IN  /\ sl.min_slice = { i \in rng : IsControlOp(OpAt(i)) }
                /\ sl.taken = { i \in rng : IsCondBranchOrIf(OpAt(i)) }

SetsBefore(lid, i) ==
    { j \in 0..(i - 1) : OpAt(j).op = "LocalSet" /\ OpAt(j).a = lid }

Max(S) == CHOOSE x \in S : \A y \in S : y <= x

\* C18: LocalSet lid pops one origin and records it without failing; a later
\* LocalGet lid of a local that is no parameter pushes exactly that origin,
\* and LocalGet of a parameter pushes Param(idx, lid)
C18_LocalsTracked ==
    [][(stage = "analyze" /\ ip < Len(body)) =>
        LET o == OpAt(ip) IN
        /\ (o.op = "LocalSet" /\ stack # <<>>) =>
                /\ stage' = "analyze"
                /\ stack' = DropN(stack, 1)
        /\ (o.op = "LocalGet" /\ o.a >= total_params /\ SetsBefore(o.a, ip) # {}) =>
                /\ stage' = "analyze"
                /\ stack' = Append(stack, instrs[Max(SetsBefore(o.a, ip)) + 1].inputs[1])
        /\ (o.op = "LocalGet" /\ o.a < total_params) =>
                /\ stage' = "analyze"
                /\ stack' = Append(stack, Org("Param", ip, o.a))]_vars

\* opcodes with one result that are no access, load, call or control opcode
IsPlainOp(o) == o.op \in {"I32Const", "I32Eqz", "I32Add", "I32And", "Select"}

\* the operands of a plain opcode: none, one, two or three
PlainArity(o) ==
    CASE o.op = "I32Const" -> 0
      [] o.op = "I32Eqz" -> 1
      [] o.op = "Select" -> 3
      [] OTHER -> 2

\* opcodes that push one tracked value and pop nothing
IsLeaf(o) == o.op = "I32Const" \/ (o.op = "LocalGet" /\ o.a < total_params)

\* C19: a plain opcode (constant, arithmetic, comparison, conversion) at idx
\* pushes an origin that names idx, so that a conditional branch or If whose
\* condition it computes has the opcode and its inputs in max_slice
C19_PlainOpsTraced ==
    /\ (stage = "analyze" /\ ip >= 1 /\ IsPlainOp(OpAt(ip - 1))) =>
            /\ stack # <<>>
            /\ stack[Len(stack)].t \in {"Instr", "Const"}
            /\ stack[Len(stack)].i = ip - 1
    /\ Sliced =>
        \A c \in 1..(Len(body) - 1) :
            (OpAt(c).op \in {"BrIf", "If"} /\ IsPlainOp(OpAt(c - 1))) =>
                LET n == PlainArity(OpAt(c - 1)) IN
                /\ c - 1 \in slices[0].max_slice
                /\ (c - 1 >= n /\ \A d \in 1..n : IsLeaf(OpAt(c - 1 - d))) =>
                        \A d \in 1..n : c - 1 - d \in slices[0].max_slice

\* the height of the analyzer's stack before the opcode at index i, for a body
\* the analyzer does not panic on
RECURSIVE HeightAt(_)
HeightAt(i) ==
    IF i = 0 THEN 0
    ELSE LET o == OpAt(i - 1)
             h == HeightAt(i - 1)
         IN  IF o.op = "Return"
             THEN (IF h < total_results THEN 0 ELSE h - total_results)
             ELSE h - AnPops(o) + Len(AnPushes(o, i - 1, UntrackedN(AnPops(o))))

\* C20: for every function the analyzer accepts, the symbolic stack at the
\* end of the body holds as many origins as the function has results, and
\* after the End of a block (empty block type) the stack is no higher than it
\* was when the block was entered
C20_HeightAtEnd ==
    (stage = "slice" \/ Sliced) =>
        /\ Len(stack) = HeightAt(Len(body))
        /\ Len(stack) = total_results
        /\ \A b \in 0..(Len(body) - 1) :
            (IsBlockOp(OpAt(b)) /\ EndIdx(b) >= 0) =>
                HeightAt(EndIdx(b) + 1) <= HeightAt(b + 1)

\* the inputs the analyzer logged for the opcode at absolute index j: Return
\* logs no record, so the record of j comes after those of the opcodes before
\* j that are no Return
LoggedInputs(j) ==
    LET n == Cardinality({ k \in 0..(j - 1) : OpAt(k).op # "Return" }) + 1
    IN  IF j < Len(body) /\ OpAt(j).op # "Return" /\ n <= Len(instrs)
        THEN instrs[n].inputs ELSE <<>>

\* C21: in every slice, function-level or loop sub-slice, when the worklist
\* pops Instr(j) and j is new in max_slice, the origins enqueued are exactly
\* the inputs the analyzer logged for the opcode at absolute index j
C21_EnqueuesInputsOfJ ==
    (stage = "slice" \/ Sliced) =>
        LET r == slice_program IN
        r.ok => \A k \in DOMAIN r.logs :
                    \A n \in 1..Len(r.logs[k].enq) :
                        r.logs[k].enq[n][2] = LoggedInputs(r.logs[k].enq[n][1])

\* the number of origins the entries of enq pushed to the worklist
RECURSIVE Enqueued(_)
Enqueued(enq) ==
    IF enq = <<>> THEN 0 ELSE Len(Head(enq)[2]) + Enqueued(Tail(enq))

\* C22: the worklist of every slice terminates, having popped every origin
\* that was pushed exactly once, and the inputs of each instruction are
\* enqueued at most once: no index is processed twice by the Instr arm, and
\* the record whose inputs the Instr arm enqueues was not already a seed
C22_WorklistOnce ==
    (stage = "slice" \/ Sliced) =>
        LET r == slice_program IN
        r.ok => \A k \in DOMAIN r.logs :
            LET L == r.logs[k] IN
            /\ L.pops = L.seeds + Enqueued(L.enq)
            /\ \A a, b \in 1..Len(L.enq) : a # b => L.enq[a][1] # L.enq[b][1]
            /\ \A n \in 1..Len(L.enq) :
                L.enq[n][2] # <<>> => (k + L.enq[n][1]) \notin L.seeded

\* the block opened at b has its End in the body
ClosedBlock(b) == IsBlockOp(OpAt(b)) /\ EndIdx(b) > b /\ EndIdx(b) < Len(body)

\* C23: a block whose opener is not in max_slice and between whose opener and
\* End no instruction of max_slice lies is not committed: neither its opener
\* nor its Else nor its End is in instrs_support
C23_EmptyBlockNotCommitted ==
    Structured =>
        \A k \in DOMAIN slices : \A b \in 0..(Len(body) - 1) :
            (/\ ClosedBlock(b)
             /\ \A i \in b..EndIdx(b) : i \notin slices[k].max_slice) =>
                /\ b \notin slices[k].instrs_support
                /\ EndIdx(b) \notin slices[k].instrs_support
                /\ HasElse(b) => ElseIdx(b) \notin slices[k].instrs_support

\* C24: after the structuralizer has run, max_slice and instrs_support of
\* every slice are disjoint
C24_SupportDisjoint ==
    Structured =>
        \A k \in DOMAIN slices :
            slices[k].max_slice \cap slices[k].instrs_support = {}

\* the opcode at index t is in the slice sl (max_slice or its support)
InSlice(sl, t) == t \in sl.max_slice \/ t \in sl.instrs_support

\* control-flow opcodes of calc_op_cost
IsCfOp(o) == is_branching_op(o) \/ o.op \in {"If", "Else", "End", "Return"}

\* positions in the code of probe f of the accumulations emitted at index t
AddsAt(f, t) ==
    { n \in 1..Len(f.code) : f.code[n].op = "FuelAdd" /\ f.code[n].src = t }

\* positions of what gen_op emitted for the opcode at index t
OpsAt(f, t) ==
    { n \in 1..Len(f.code) : f.code[n].op # "FuelAdd" /\ f.code[n].src = t }

\* the opcodes probe f visited up to t since the accumulation point before t
SinceFlush(f, t) ==
    { u \in { f.visited[n] : n \in 1..Len(f.visited) } :
        /\ u <= t
        /\ \A c \in f.cost_map : c[1] < t => c[1] < u }

\* C25: while a probe is emitted, the accumulation is emitted immediately
\* before an opcode exactly when the opcode is in the slice and is a branch,
\* If, Else, End or Return, or is the last opcode of the slice's range; it adds
\* the running total, which is positive and restarts from zero after each
\* such point
C25_AccumulationPoints ==
    \A k \in DOMAIN probes :
        LET f == probes[k]
            sl == slices[k]
        IN  /\ \A n \in 1..Len(f.code) :
                f.code[n].op = "FuelAdd" =>
                    \E v \in 1..Len(f.visited) : f.visited[v] = f.code[n].src
            /\ \A v \in 1..Len(f.visited) :
                LET t == f.visited[v] IN
                /\ AddsAt(f, t) # {} <=>
                        \/ InSlice(sl, t) /\ IsCfOp(OpAt(t))
                        \/ t = sl.end_instr_idx - 1
                /\ \A n \in AddsAt(f, t) :
                    /\ AddsAt(f, t) = {n}
                    /\ f.code[n].a = Cardinality(SinceFlush(f, t))
                    /\ f.code[n].a > 0
                    /\ \A q \in OpsAt(f, t) : q > n
                    /\ InSlice(sl, t) => n + 1 \in OpsAt(f, t)

\* a probe with an accumulation before an If of the slice and before the
\* last opcode, and none before an End that is not in the slice
C25_Witness ==
    /\ 0 \in DOMAIN probes
    /\ \E t \in 0..(Len(body) - 2) :
        /\ OpAt(t).op \in {"If", "BrIf"}
        /\ AddsAt(probes[0], t) # {}
        /\ AddsAt(probes[0], Len(body) - 1) # {}
    /\ \E t \in 0..(Len(body) - 2) :
        /\ IsCfOp(OpAt(t))
        /\ ~InSlice(slices[0], t)
        /\ AddsAt(probes[0], t) = {}

\* the loops whose sub-slice lies inside the range of slice k (k itself, the
\* sub-slice of the loop at k - 1, excluded)
NestedLoops(k) ==
    { l \in 0..(Len(body) - 1) :
        /\ OpAt(l).op = "Loop"
        /\ l + 1 # k
        /\ l >= slices[k].start_instr_idx
        /\ l < slices[k].end_instr_idx }

\* C26: while the probe of a slice is emitted, a nested sub-slice is skipped:
\* emission resumes at the first opcode after the End of the nested loop, no
\* opcode of the sub-slice is emitted or costed in the enclosing probe, and
\* the index used stays inside the body of the enclosing slice, for
\* function-level slices and for loop slices that contain loops
C26_SubSliceSkipped ==
    /\ stage # "panic_codegen"
    /\ \A k \in DOMAIN probes : \A l \in NestedLoops(k) :
        LET f == probes[k] IN
        /\ \A v \in 1..Len(f.visited) :
            /\ ~(f.visited[v] > l /\ f.visited[v] <= EndIdx(l))
            /\ f.visited[v] < slices[k].end_instr_idx
            /\ (f.visited[v] = l /\ v < Len(f.visited)) =>
                    f.visited[v + 1] = EndIdx(l) + 1
        /\ \A n \in 1..Len(f.code) :
            ~(f.code[n].src > l /\ f.code[n].src <= EndIdx(l))

\* C27: every exit of a probe yields the fuel local: an emitted Return comes
\* right after a read of the fuel local, which comes after the accumulation
\* emitted for that Return, and the code ends with the outer End followed by
\* a read of the fuel local
C27_ExitsYieldFuel ==
    \A k \in DOMAIN probes :
        LET f == probes[k]
            len == Len(f.code)
        IN  /\ len >= 3
            /\ f.code[len].op = "FuelGet"
            /\ f.code[len - 1].op = "End" /\ f.code[len - 1].src = -1
            /\ f.code[1].op = "Block" /\ f.code[1].src = -1
            /\ \A n \in 1..len :
                f.code[n].op = "Return" =>
                    /\ n > 1
                    /\ f.code[n - 1].op = "FuelGet"
                    /\ f.code[n - 1].src = f.code[n].src
                    /\ AddsAt(f, f.code[n].src) # {}
                    /\ \A q \in AddsAt(f, f.code[n].src) : q < n - 1

\* a probe that holds a Return
C27_Witness ==
    /\ stage = "written"
    /\ \E n \in 1..Len(probes[0].code) :
        /\ probes[0].code[n].op = "Return"
        /\ n + 1 < Len(probes[0].code) - 1

\* C28: the analyzer logs exactly one InstrInfo per opcode, in order: while it
\* runs the log is as long as the opcodes analysed, afterwards as long as the
\* body, and instrs[i] describes the opcode at index i (its kind and as many
\* inputs as the opcode pops), also for bodies that contain Return
C28_OneInfoPerOpcode ==
    /\ stage = "analyze" => Len(instrs) = ip
    /\ (stage = "slice" \/ Sliced) =>
        /\ Len(instrs) = Len(body)
        /\ \A i \in 0..(Len(body) - 1) :
            i < Len(instrs) =>
                /\ instrs[i + 1].kind = AnKind(OpAt(i))
                /\ Len(instrs[i + 1].inputs) = AnPops(OpAt(i))

\* the opcodes of the range of slice k that lie in no nested loop (a nested
\* loop's opener belongs to the slice, its body and its End do not)
OwnOps(k) ==
    { t \in slices[k].start_instr_idx..(slices[k].end_instr_idx - 1) :
        \A l \in NestedLoops(k) : ~(t > l /\ t <= EndIdx(l)) }

\* the sum of the costs recorded in a cost map
RECURSIVE CostSum(_)
CostSum(cm) ==
    IF cm = {} THEN 0
    ELSE LET c == CHOOSE x \in cm : TRUE IN c[2] + CostSum(cm \ {c})

\* C29: for every slice, the cost of each opcode of its range outside nested
\* loops is added to the running total once and every running total is
\* flushed: the costs recorded at the accumulation points of its probe sum to
\* the total cost of those opcodes (unit costs), and no slice with opcodes to
\* cost is left without recorded costs because its emission stopped early
C29_CostsAddUp ==
    /\ \A k \in DOMAIN probes :
        /\ CostSum(probes[k].cost_map) = Cardinality(OwnOps(k))
        /\ \A t \in OwnOps(k) :
            \E v \in 1..Len(probes[k].visited) : probes[k].visited[v] = t
    /\ (stage = "panic_codegen" /\ slices[NextSlice].end_instr_idx <= Len(body)) =>
            OwnOps(NextSlice) = {}

\* C30: analysing a CallIndirect whose type has p parameters and r results
\* leaves the symbolic stack p + 1 origins shorter (arguments and table
\* index) and r origins longer, and the origins below are untouched
C30_CallIndirectPopsIndex ==
    [][(/\ stage = "analyze"
        /\ ip < Len(body)
        /\ OpAt(ip).op = "CallIndirect"
        /\ Len(stack) >= TypeParams(OpAt(ip).a) + 1) =>
            /\ stage' = "analyze"
            /\ stack' = DropN(stack, TypeParams(OpAt(ip).a) + 1)
                            \o Results("CallIndirect", ip, TypeResults(OpAt(ip).a))]_vars

====
